---- MODULE Spec2Model ----
(***************************************************************************)
(* EVBot backend (src/server/index.js): the decision-tree navigation       *)
(* engine with its per-chat session state (dtState), the per-message       *)
(* state cache (dtMsgState) and the callback dispatcher.                   *)
(*                                                                         *)
(* JavaScript arrays are references.  A history array can be shared by     *)
(* the session object and by message-bound objects, and pushDtHistory      *)
(* pushes in place.  The model keeps, per chat, the partition of the       *)
(* history holders (0 = the session object, m >= 1 = the message-bound     *)
(* object of message m) into classes that hold the very same array.        *)
(***************************************************************************)
EXTENDS Integers, Sequences, FiniteSets, TLC

\* ------------------------------------------------------------------ bounds
\* option indices a button press may carry: 0..MaxOpt
MaxOpt == 6

\* Two chats, each with two messages that carry buttons: the message a
\* press originates from and one other message.  Spec and SpecFull follow
\* the first chat alone; SpecChats lets both act.
Chats == {1, 2}
OneChat == {1}
MsgIds == {1, 2}

\* the de-duplication window of the callback handler, in ms (line 1118)
Window == 250
Holders == {0} \cup MsgIds

\* ------------------------------------------------- reserved node tokens
ROUTE_OFFLINE == "__ROUTE_GENERAL_DC_OFFLINE__"
ROUTE_OVERTEMP == "__ROUTE_GENERAL_DC_OVERTEMP__"
MENU_GENERAL_DC == "__MENU_GENERAL_DC__"
MENU_KEMPOWER == "__MENU_KEMPOWER__"
MENU_AUTEL == "__MENU_AUTEL__"
MENU_TRITIUM == "__MENU_TRITIUM__"
RouteTokens == {ROUTE_OFFLINE, ROUTE_OVERTEMP}
MenuTokens == {MENU_GENERAL_DC, MENU_KEMPOWER, MENU_AUTEL, MENU_TRITIUM}

PackNames == {"general_dc", "autel", "kempower", "tritium"}

\* ------------------------------------------------------- fault-pack content
\* A node: its prompt and the `next` targets of its options in declared
\* order ("" is an option without a next).
Node(prompt, nexts) == [prompt |-> prompt, options |-> nexts]
NoNodes == [x \in {} |-> Node("", <<>>)]
NoTree == [start |-> "", hasNodes |-> FALSE, nodes |-> NoNodes]
Tree(start, nodes) == [start |-> start, hasNodes |-> TRUE, nodes |-> nodes]
Fault(id, tree) == [ok |-> TRUE, id |-> id, tree |-> tree]
NoFault == [ok |-> FALSE, id |-> "", tree |-> NoTree]

\* autel F1: the tree of the spec's concrete scenario.
F1 ==
  Fault("F1", Tree("n1", [k \in {"n1", "n2"} |->
      IF k = "n1" THEN Node("A", <<"n2">>) ELSE Node("B", <<>>)]))
\* autel F2: one node with a self loop, both route tokens, a menu jump, a
\* dangling target and an option without a next; the node has no prompt.
F2 ==
  Fault("F2", Tree("a", [k \in {"a"} |->
      Node("", <<"a", ROUTE_OFFLINE, ROUTE_OVERTEMP, MENU_AUTEL, "zz", "">>)]))
\* autel F3: a fault without a decision tree.
F3 == Fault("F3", NoTree)
\* autel F1:x: a fault whose id holds a ":"; its first segment is the id of
\* another fault.
F4 == Fault("F1:x", NoTree)
AutelFaults == <<F1, F2, F3, F4>>

RouteFault(id, start, nodes) == Fault(id, Tree(start, nodes))
R1Nodes == [k \in {"r1"} |-> Node("R", <<MENU_GENERAL_DC, MENU_KEMPOWER>>)]
T1Nodes == [k \in {"t1"} |-> Node("T", <<MENU_TRITIUM>>)]

\* The general_dc file in three authorings: both route faults well formed;
\* one route fault missing and the other with a dangling start node; start
\* nodes that are route tokens themselves.
GdcOk ==
  << RouteFault(ROUTE_OFFLINE, "r1", R1Nodes),
     RouteFault(ROUTE_OVERTEMP, "t1", T1Nodes) >>
GdcBroken == << RouteFault(ROUTE_OVERTEMP, "tx", T1Nodes) >>
GdcLoop ==
  << RouteFault(ROUTE_OFFLINE, ROUTE_OFFLINE, R1Nodes),
     RouteFault(ROUTE_OVERTEMP, ROUTE_OFFLINE, T1Nodes) >>
\* a fourth authoring: a well-formed route fault one of whose options names
\* a member every object inherits
P1Nodes == [k \in {"r1"} |-> Node("R", <<"constructor">>)]
GdcProto ==
  << RouteFault(ROUTE_OFFLINE, "r1", P1Nodes),
     RouteFault(ROUTE_OVERTEMP, "t1", T1Nodes) >>

Authorings == {"ok", "broken", "loop"}
\* the content of the fault files under an authoring: pack -> faults
PackContent(a) ==
  [p \in PackNames |->
     IF p = "general_dc"
     THEN (IF a = "ok" THEN GdcOk ELSE IF a = "broken" THEN GdcBroken
           ELSE IF a = "proto" THEN GdcProto ELSE GdcLoop)
     ELSE IF p = "autel" THEN AutelFaults
     ELSE << >>]

\* ------------------------------------------------------------------ state
VARIABLES
  packs,        \* the authoring of the fault-pack files, re-read on every access
  dtState,      \* chatId -> session object, or NoDt
  dtMsgState,   \* chatId -> messageId -> message-bound object, or NoDt
  alias,        \* chatId -> holder -> least holder sharing its history array
  reportState,  \* chatId -> report wizard state
  nmsg,         \* chatId -> number of messages with buttons sent so far
  view,         \* chatId -> the most recent view sent or edited
  rl,           \* chatId -> ms since the last accepted callback (Date.now() -
                \* __EVBOT_CB_RL.get(chatId)), counted up to Window
  pending       \* chatId -> callbacks delivered to the handler and waiting
                \* for their acknowledgement to complete, oldest first

vars == <<packs, dtState, dtMsgState, alias, reportState, nmsg, view, rl, pending>>

\* { pack: "", faultId: "", history: [], messageId: null }; messageId 0 is
\* null; a message-bound object has no messageId (kept 0).
NoDt == [ok |-> FALSE, pack |-> "", faultId |-> "", history |-> <<>>, messageId |-> 0]
NoReport == [ok |-> FALSE, step |-> "", faultId |-> ""]
NoView == [kind |-> "none", pack |-> "", fault |-> "", node |-> "", text |-> "", n |-> 0, msg |-> 0]

\* The program state as one value, so that handlers compose as functions.
Cur ==
  [packs |-> packs, dtState |-> dtState, dtMsgState |-> dtMsgState,
   alias |-> alias, reportState |-> reportState,
   nmsg |-> nmsg, view |-> view, rl |-> rl, out |-> "silent", ovf |-> FALSE,
   atSend |-> << >>]

\* The stores of the engine, and the mark a handler leaves when it hands a
\* send or an edit to the Bot API: atSend keeps the stores as they were at
\* the first such call (the only point where a handler can be suspended).
Stores(s) ==
  [dtState |-> s.dtState, dtMsgState |-> s.dtMsgState, alias |-> s.alias,
   reportState |-> s.reportState]
Issue(s) == [s EXCEPT !.atSend = IF @ = << >> THEN << Stores(s) >> ELSE @]

\* --------------------------------------------------- array identity (heap)
Canon(f) ==
  [h \in Holders |->
     CHOOSE k \in Holders : f[k] = f[h] /\ \A j \in Holders : f[j] = f[h] => k <= j]
\* holder h gets an array of its own
Detach(al, h) == Canon([al EXCEPT ![h] = -1])
\* holder h gets the array of holder g
Join(al, h, g) == IF h = g THEN al ELSE Canon([al EXCEPT ![h] = al[g]])

KeepH == [k |-> "keep"]
NewH(seq) == [k |-> "new", v |-> seq]
RefH(g) == [k |-> "ref", of |-> g]

HistoryOf(s, c, h) ==
  IF h = 0 THEN s.dtState[c].history ELSE s.dtMsgState[c][h].history

Pick(patch, cur, k) == IF k \in DOMAIN patch THEN patch[k] ELSE cur[k]

\* ------------------------------------------------------------- state store
getDt(s, c) == s.dtState[c]

\* resetDt that forgets the chat's message-bound objects as well
resetDt_ClearsMessages(s, c) ==
  [s EXCEPT !.dtState[c] = NoDt, !.dtMsgState[c] = [m \in MsgIds |-> NoDt],
            !.alias[c] = [h \in Holders |-> h]]

resetDt(s, c) ==
  [s EXCEPT !.dtState[c] = NoDt, !.alias[c] = Detach(@, 0)]

\* setDt(chatId, patch): patch gives some of pack, faultId, messageId; hsrc
\* says what patch.history is: absent, a new array, or the array of a holder.
setDt(s, c, patch, hsrc) ==
  LET had == s.dtState[c].ok
      cur == IF had THEN s.dtState[c] ELSE NoDt
      hist == IF hsrc.k = "new" THEN hsrc.v
              ELSE IF hsrc.k = "ref" THEN HistoryOf(s, c, hsrc.of)
              ELSE cur.history
      al == IF hsrc.k = "ref" THEN Join(s.alias[c], 0, hsrc.of)
            ELSE IF hsrc.k = "new" \/ ~had THEN Detach(s.alias[c], 0)
            ELSE s.alias[c]
      next == [ok |-> TRUE, pack |-> Pick(patch, cur, "pack"),
               faultId |-> Pick(patch, cur, "faultId"), history |-> hist,
               messageId |-> Pick(patch, cur, "messageId")]
  IN [s EXCEPT !.dtState[c] = next, !.alias[c] = al]

getDtFromMessage(s, c, m) == IF m = 0 THEN NoDt ELSE s.dtMsgState[c][m]

setDtForMessage(s, c, m, patch, hsrc) ==
  IF m = 0 THEN s
  ELSE
  LET had == s.dtMsgState[c][m].ok
      cur == IF had THEN s.dtMsgState[c][m] ELSE NoDt
      hist == IF hsrc.k = "new" THEN hsrc.v
              ELSE IF hsrc.k = "ref" THEN HistoryOf(s, c, hsrc.of)
              ELSE cur.history
      al == IF hsrc.k = "ref" THEN Join(s.alias[c], m, hsrc.of)
            ELSE IF hsrc.k = "new" \/ ~had THEN Detach(s.alias[c], m)
            ELSE s.alias[c]
      next == [ok |-> TRUE, pack |-> Pick(patch, cur, "pack"),
               faultId |-> Pick(patch, cur, "faultId"), history |-> hist,
               messageId |-> 0]
  IN [s EXCEPT !.dtMsgState[c][m] = next, !.alias[c] = al]

\* hist.push mutates the array in place: every holder of that array sees it.
PushInPlace(s, c, nodeId) ==
  LET al == s.alias[c] IN
  [s EXCEPT
     !.dtState[c].history = Append(@, nodeId),
     !.dtMsgState[c] =
        [m \in MsgIds |->
           IF al[m] = al[0] THEN [@[m] EXCEPT !.history = Append(@, nodeId)]
           ELSE @[m]]]

Last(h) == IF Len(h) = 0 THEN "" ELSE h[Len(h)]

\* pushDtHistory without the comparison against the top
pushDtHistory_NoDedupe(s, c, nodeId) ==
  IF ~getDt(s, c).ok THEN s
  ELSE setDt(PushInPlace(s, c, nodeId), c, << >>, RefH(0))

\* pushDtHistory that never appends
pushDtHistory_Skip(s, c, nodeId) ==
  IF ~getDt(s, c).ok THEN s ELSE setDt(s, c, << >>, RefH(0))

pushDtHistory(s, c, nodeId) ==
  LET cur == getDt(s, c) IN
  IF ~cur.ok THEN s
  ELSE IF Last(cur.history) # nodeId
       THEN setDt(PushInPlace(s, c, nodeId), c, << >>, RefH(0))
       ELSE setDt(s, c, << >>, RefH(0))

\* popDtHistory that returns the previous node and forgets to store the
\* shortened history
popDtHistory_NoStore(s, c) ==
  LET cur == getDt(s, c) IN
  IF ~cur.ok \/ Len(cur.history) <= 1 THEN [s |-> s, prev |-> ""]
  ELSE [s |-> s, prev |-> cur.history[Len(cur.history) - 1]]

\* popDtHistory that pops a history of one entry as well
popDtHistory_ToEmpty(s, c) ==
  LET cur == getDt(s, c) IN
  IF ~cur.ok THEN [s |-> s, prev |-> ""]
  ELSE IF Len(cur.history) < 1 THEN [s |-> s, prev |-> ""]
  ELSE LET hist == SubSeq(cur.history, 1, Len(cur.history) - 1)
       IN [s |-> setDt(s, c, << >>, NewH(hist)), prev |-> Last(hist)]

\* returns the state and the previous node ("" is null)
popDtHistory(s, c) ==
  LET cur == getDt(s, c) IN
  IF ~cur.ok THEN [s |-> s, prev |-> ""]
  ELSE IF Len(cur.history) <= 1 THEN [s |-> s, prev |-> ""]
  ELSE LET hist == SubSeq(cur.history, 1, Len(cur.history) - 1)
       IN [s |-> setDt(s, c, << >>, NewH(hist)), prev |-> Last(hist)]

\* ------------------------------------------------------------ pack helpers
ToLower(p) ==
  IF p = "GENERAL_DC" THEN "general_dc"
  ELSE IF p = "AUTEL" THEN "autel"
  ELSE IF p = "KEMPOWER" THEN "kempower"
  ELSE IF p = "TRITIUM" THEN "tritium"
  ELSE p

loadPackByName(s, pack) ==
  LET p == ToLower(pack) IN
  IF p = "general_dc" THEN PackContent(s.packs)["general_dc"]
  ELSE IF p = "kempower" THEN PackContent(s.packs)["kempower"]
  ELSE IF p = "tritium" THEN PackContent(s.packs)["tritium"]
  ELSE PackContent(s.packs)["autel"]

getFaultById(s, pack, id) ==
  LET faults == loadPackByName(s, pack)
      hits == {i \in 1..Len(faults) : faults[i].id = id}
  IN IF hits = {} THEN NoFault
     ELSE faults[CHOOSE i \in hits : \A j \in hits : i <= j]

\* ------------------------------------------------------------ transport
Display(kind, pack, fault, node, text, n) ==
  [kind |-> kind, pack |-> pack, fault |-> fault, node |-> node,
   text |-> text, n |-> n, msg |-> 0]

\* bot.sendMessage without a keyboard: a new message nobody can press.
sendMessage(s, c, kind) ==
  [Issue(s) EXCEPT !.view[c] = Display(kind, "", "", "", "", 0), !.out = kind]

\* upsertMessage: edit message m when there is one and the edit succeeds
\* (editOk), else send a new message, which gets the next message id.  ovf
\* marks a send for which the model has no message left.
upsertMessage(s, c, m, editOk, d) ==
  IF m # 0 /\ editOk
  THEN [Issue(s) EXCEPT !.view[c] = [d EXCEPT !.msg = m], !.out = d.kind]
  ELSE IF s.nmsg[c] + 1 \in MsgIds
  THEN [Issue(s) EXCEPT !.nmsg[c] = @ + 1, !.view[c] = [d EXCEPT !.msg = s.nmsg[c] + 1],
                        !.out = d.kind]
  ELSE [s EXCEPT !.ovf = TRUE]

\* ---------------------------------------------------------------- menus
showManufacturerMenu(s, c, m, editOk) ==
  upsertMessage(resetDt(s, c), c, m, editOk, Display("mfrmenu", "", "", "", "", 0))

showGeneralDcMenu(s, c, m, editOk) ==
  upsertMessage(resetDt(s, c), c, m, editOk, Display("packmenu", "general_dc", "", "", "", 0))
showGeneralDcAllMenu(s, c, m, editOk) ==
  upsertMessage(resetDt(s, c), c, m, editOk, Display("allmenu", "general_dc", "", "", "", 0))
\* showAutelMenu without the reset of the session state
showAutelMenu_NoReset(s, c, m, editOk) ==
  upsertMessage(s, c, m, editOk, Display("packmenu", "autel", "", "", "", 0))

showAutelMenu(s, c, m, editOk) ==
  upsertMessage(resetDt(s, c), c, m, editOk, Display("packmenu", "autel", "", "", "", 0))
showKempowerMenu(s, c, m, editOk) ==
  upsertMessage(resetDt(s, c), c, m, editOk, Display("packmenu", "kempower", "", "", "", 0))
showTritiumMenu(s, c, m, editOk) ==
  upsertMessage(resetDt(s, c), c, m, editOk, Display("packmenu", "tritium", "", "", "", 0))

\* ------------------------------------------------------------ fault card
HasStart(fault) == fault.tree.start # "" /\ fault.tree.hasNodes

\* showFaultCard that keeps the history it finds
showFaultCard_KeepHistory(s, c, m, pack, fault, editOk) ==
  LET s1 == setDt(s, c, [pack |-> pack, faultId |-> fault.id, messageId |-> m], KeepH)
      s2 == IF m # 0
            THEN setDtForMessage(s1, c, m, [pack |-> pack, faultId |-> fault.id], KeepH)
            ELSE s1
  IN upsertMessage(s2, c, m, editOk,
       Display("card", pack, fault.id, "", "", IF HasStart(fault) THEN 1 ELSE 0))

\* showFaultCard that stores the binding once the card has been sent
showFaultCard_SendFirst(s, c, m, pack, fault, editOk) ==
  LET s0 == upsertMessage(s, c, m, editOk,
              Display("card", pack, fault.id, "", "", IF HasStart(fault) THEN 1 ELSE 0))
      s1 == setDt(s0, c, [pack |-> pack, faultId |-> fault.id, messageId |-> m], NewH(<< >>))
  IN IF s0.ovf THEN s0
     ELSE IF m # 0
     THEN setDtForMessage(s1, c, m, [pack |-> pack, faultId |-> fault.id], NewH(<< >>))
     ELSE s1

showFaultCard(s, c, m, pack, fault, editOk) ==
  LET s1 == setDt(s, c, [pack |-> pack, faultId |-> fault.id, messageId |-> m], NewH(<< >>))
      s2 == IF m # 0
            THEN setDtForMessage(s1, c, m, [pack |-> pack, faultId |-> fault.id], NewH(<< >>))
            ELSE s1
  IN upsertMessage(s2, c, m, editOk,
       Display("card", pack, fault.id, "", "", IF HasStart(fault) THEN 1 ELSE 0))

\* ---------------------------------------------------------- decision tree
\* tree.nodes is a plain object (yaml.load, line 109): tree.nodes[nodeId] of
\* a name that Object.prototype defines is that inherited member, a value
\* that is truthy and has neither prompt nor options.
ObjectProto == {"constructor", "toString"}
LookupNode(tree, nodeId) ==
  IF tree.hasNodes /\ nodeId \in DOMAIN tree.nodes
  THEN [ok |-> TRUE, node |-> tree.nodes[nodeId]]
  ELSE IF tree.hasNodes /\ nodeId \in ObjectProto
  THEN [ok |-> TRUE, node |-> Node("", << >>)]
  ELSE [ok |-> FALSE, node |-> Node("", << >>)]

\* The route chain visits one route token per call: a chain longer than the
\* number of route tokens repeats a token and never ends.
RouteFuel == Cardinality(RouteTokens)

\* BindNode that leaves the message-bound state as it finds it
BindNode_NoSync(s, c, m, pack, fault, nodeId) ==
  pushDtHistory(setDt(s, c, [pack |-> pack, faultId |-> fault.id, messageId |-> m], KeepH),
                c, nodeId)

\* state update of a found node (lines 530-541)
BindNode(s, c, m, pack, fault, nodeId) ==
  LET s1 == setDt(s, c, [pack |-> pack, faultId |-> fault.id, messageId |-> m], KeepH)
      s2 == pushDtHistory(s1, c, nodeId)
      st == getDt(s2, c)
  IN IF m # 0
     THEN setDtForMessage(s2, c, m,
            [pack |-> IF st.pack # "" THEN st.pack ELSE pack,
             faultId |-> IF st.faultId # "" THEN st.faultId ELSE fault.id],
            RefH(0))
     ELSE s2

\* RouteBind that rebinds pack and fault and keeps the history it finds
RouteBind_KeepHistory(s, c, m, rf) ==
  LET s1 == setDt(s, c, [pack |-> "general_dc", faultId |-> rf.id, messageId |-> m], KeepH)
  IN IF m # 0
     THEN setDtForMessage(s1, c, m, [pack |-> "general_dc", faultId |-> rf.id], KeepH)
     ELSE s1

\* state update of a resolved route (lines 486-487, 502-503)
RouteBind(s, c, m, rf) ==
  LET s1 == setDt(s, c, [pack |-> "general_dc", faultId |-> rf.id, messageId |-> m],
                  NewH(<< >>))
  IN IF m # 0
     THEN setDtForMessage(s1, c, m, [pack |-> "general_dc", faultId |-> rf.id], NewH(<< >>))
     ELSE s1

RECURSIVE renderYamlDecisionNode(_, _, _, _, _, _, _, _)
renderYamlDecisionNode(s, c, m, pack, fault, nodeId, editOk, fuel) ==
  IF nodeId \in RouteTokens
  THEN LET rf == getFaultById(s, "general_dc", nodeId) IN
       IF rf.tree.start = ""
       THEN sendMessage(s, c, "err_route")
       ELSE LET s2 == RouteBind(s, c, m, rf)
            IN IF fuel = 0
               THEN [s2 EXCEPT !.out = "diverge"]
               ELSE renderYamlDecisionNode(s2, c, m, "general_dc", rf, rf.tree.start,
                                           editOk, fuel - 1)
  ELSE IF nodeId = MENU_GENERAL_DC THEN showGeneralDcMenu(s, c, m, editOk)
  ELSE IF nodeId = MENU_KEMPOWER THEN showKempowerMenu(s, c, m, editOk)
  ELSE IF nodeId = MENU_AUTEL THEN showAutelMenu(s, c, m, editOk)
  ELSE IF nodeId = MENU_TRITIUM THEN showTritiumMenu(s, c, m, editOk)
  ELSE LET f == LookupNode(fault.tree, nodeId) IN
       IF ~f.ok
       THEN upsertMessage(s, c, m, editOk, Display("err_node", pack, "", nodeId, "", 1))
       ELSE upsertMessage(BindNode(s, c, m, pack, fault, nodeId), c, m, editOk,
              Display("node", pack, fault.id, nodeId,
                      IF f.node.prompt # "" THEN f.node.prompt ELSE "...",
                      Len(f.node.options)))

renderNode(s, c, m, pack, fault, nodeId, editOk) ==
  renderYamlDecisionNode(s, c, m, pack, fault, nodeId, editOk, RouteFuel)

\* ---------------------------------------------------------------- report
clearReport(s, c) == [s EXCEPT !.reportState[c] = NoReport]

startReport(s, c) ==
  sendMessage([s EXCEPT !.reportState[c] = [ok |-> TRUE, step |-> "site", faultId |-> ""]],
              c, "report")

startReportFromFault(s, c, pack, fault) ==
  sendMessage([s EXCEPT !.reportState[c] = [ok |-> TRUE, step |-> "site", faultId |-> fault.id]],
              c, "report")

\* ------------------------------------------------------- callback data
\* q.data is modelled as its list of ":"-separated segments; "RF|p|f" is
\* the list <<"RF|", p, f>>.
DigitStr == <<"0", "1", "2", "3", "4", "5", "6", "7", "8", "9">>
NaN == 0 - 1
\* Number(x) of a segment that is a digit, NaN otherwise
Number(x) ==
  IF \E i \in 1..Len(DigitStr) : DigitStr[i] = x
  THEN (CHOOSE i \in 1..Len(DigitStr) : DigitStr[i] = x) - 1
  ELSE NaN

StartsWith(d, pre) ==
  Len(d) > Len(pre) /\ SubSeq(d, 1, Len(pre)) = pre
EndsWith(d, x) == Len(d) >= 2 /\ d[Len(d)] = x
IncludesFault(d) == \E i \in 2..(Len(d) - 1) : d[i] = "fault"
\* rest.join(":") of the segments after the second one
RECURSIVE JoinFrom(_, _)
JoinFrom(d, i) ==
  IF i > Len(d) THEN ""
  ELSE IF i = Len(d) THEN d[i]
  ELSE d[i] \o ":" \o JoinFrom(d, i + 1)
JoinRest(d) == JoinFrom(d, 3)
\* id.split(":") of the fault ids of the packs and of the ids pressed
IdSegs(id) == IF id = "F1:x" THEN <<"F1", "x">> ELSE <<id>>
ToUpper(p) ==
  IF p = "general_dc" THEN "GENERAL_DC"
  ELSE IF p = "autel" THEN "AUTEL"
  ELSE IF p = "kempower" THEN "KEMPOWER"
  ELSE IF p = "tritium" THEN "TRITIUM"
  ELSE p
\* the callback data of a fault button, standard and legacy
cbFault(pack, id) == <<pack, "fault">> \o IdSegs(id)
cbLegacy(pack, id) == <<ToUpper(pack)>> \o IdSegs(id)

\* a recovery that stores what it found as the session state even when it
\* found nothing
getActiveDtState_AlwaysStore(s, c, m) ==
  LET g == getDt(s, c)
      st == IF g.ok THEN g ELSE getDtFromMessage(s, c, m)
  IN IF ~g.ok
     THEN [s |-> setDt(s, c, [pack |-> st.pack, faultId |-> st.faultId], RefH(m)), st |-> st]
     ELSE [s |-> s, st |-> st]

\* a recovery that prefers the state bound to the originating message
getActiveDtState_MessageFirst(s, c, m) ==
  LET g == getDtFromMessage(s, c, m)
      st == IF g.ok THEN g ELSE getDt(s, c)
  IN IF g.ok
     THEN [s |-> setDt(s, c, [pack |-> st.pack, faultId |-> st.faultId], RefH(m)), st |-> st]
     ELSE [s |-> s, st |-> st]

\* getActiveDtState (lines 1186-1190): returns the state and st
getActiveDtState(s, c, m) ==
  LET g == getDt(s, c)
      st == IF g.ok THEN g ELSE getDtFromMessage(s, c, m)
  IN IF st.ok /\ ~g.ok
     THEN [s |-> setDt(s, c, [pack |-> st.pack, faultId |-> st.faultId], RefH(m)), st |-> st]
     ELSE [s |-> s, st |-> st]

showMenuOf(s, c, m, pack, editOk) ==
  IF pack = "general_dc" THEN showGeneralDcMenu(s, c, m, editOk)
  ELSE IF pack = "kempower" THEN showKempowerMenu(s, c, m, editOk)
  ELSE IF pack = "tritium" THEN showTritiumMenu(s, c, m, editOk)
  ELSE showAutelMenu(s, c, m, editOk)

\* dt:start that keeps the history it finds
onDtStart_KeepHistory(s, c, m, editOk) ==
  LET a == getActiveDtState(s, c, m)
      st == a.st
      fault == getFaultById(a.s, st.pack, st.faultId)
  IN IF st.pack = "" \/ st.faultId = ""
     THEN sendMessage(a.s, c, "err_noactive")
     ELSE IF fault.tree.start = ""
     THEN sendMessage(a.s, c, "err_notree")
     ELSE renderNode(a.s, c, m, st.pack, fault, fault.tree.start, editOk)

onDtStart(s, c, m, editOk) ==
  LET a == getActiveDtState(s, c, m)
      st == a.st
      fault == getFaultById(a.s, st.pack, st.faultId)
  IN IF st.pack = "" \/ st.faultId = ""
     THEN sendMessage(a.s, c, "err_noactive")
     ELSE IF fault.tree.start = ""
     THEN sendMessage(a.s, c, "err_notree")
     ELSE LET s1 == setDt(a.s, c, << >>, NewH(<< >>))
              s2 == IF m # 0 THEN setDtForMessage(s1, c, m, << >>, NewH(<< >>)) ELSE s1
          IN renderNode(s2, c, m, st.pack, fault, fault.tree.start, editOk)

\* an option lookup that wraps an index beyond the last option around
OptionNext_Wrap(opts, idx) ==
  IF Len(opts) = 0 \/ idx < 0 THEN "" ELSE opts[(idx % Len(opts)) + 1]

\* opts[idx]?.next ("" is undefined)
OptionNext(opts, idx) == IF idx + 1 \in 1..Len(opts) THEN opts[idx + 1] ELSE ""

\* the node a press acts on: the top of st.history, else the start node
CurrentNodeId(st, tree) == IF Len(st.history) > 0 THEN Last(st.history) ELSE tree.start

onDtOption(s, c, m, d, editOk) ==
  LET a == getActiveDtState(s, c, m)
      st == a.st
      idx == Number(d[3])
      fault == getFaultById(a.s, st.pack, st.faultId)
      tree == fault.tree
      currentNodeId == CurrentNodeId(st, tree)
      opts == LookupNode(tree, currentNodeId).node.options
      nextNodeId == OptionNext(opts, idx)
  IN IF st.pack = "" \/ st.faultId = ""
     THEN sendMessage(a.s, c, "err_noactive")
     ELSE IF idx = NaN THEN a.s
     ELSE IF ~tree.hasNodes \/ tree.start = "" THEN a.s
     ELSE IF nextNodeId = "" THEN sendMessage(a.s, c, "err_nonext")
     ELSE renderNode(a.s, c, m, st.pack, fault, nextNodeId, editOk)

onDtBack(s, c, m, editOk) ==
  LET a == getActiveDtState(s, c, m)
      st == a.st
      fault == getFaultById(a.s, st.pack, st.faultId)
      p == popDtHistory(a.s, c)
      ms == getDtFromMessage(p.s, c, m)
      s2 == IF m # 0 /\ ms.ok /\ Len(ms.history) > 1
            THEN setDtForMessage(p.s, c, m, << >>,
                   NewH(SubSeq(ms.history, 1, Len(ms.history) - 1)))
            ELSE p.s
  IN IF st.pack = "" \/ st.faultId = "" THEN a.s
     ELSE IF ~fault.ok THEN showManufacturerMenu(a.s, c, m, editOk)
     ELSE IF p.prev = "" THEN showFaultCard(s2, c, m, st.pack, fault, editOk)
     ELSE renderNode(s2, c, m, st.pack, fault, p.prev, editOk)

\* dt:mn that also drops the report in progress
onDtMenu_ClearsReport(s, c, m, editOk) ==
  LET a == getActiveDtState(clearReport(s, c), c, m)
      st == a.st
  IN IF st.pack = "" THEN showManufacturerMenu(a.s, c, m, editOk)
     ELSE showMenuOf(resetDt(a.s, c), c, m, st.pack, editOk)

\* dt:mn that looks at the session state only
onDtMenu_SessionOnly(s, c, m, editOk) ==
  LET st == getDt(s, c)
  IN IF st.pack = "" THEN showManufacturerMenu(s, c, m, editOk)
     ELSE showMenuOf(resetDt(s, c), c, m, st.pack, editOk)

onDtMenu(s, c, m, editOk) ==
  LET a == getActiveDtState(s, c, m)
      st == a.st
  IN IF st.pack = "" THEN showManufacturerMenu(a.s, c, m, editOk)
     ELSE showMenuOf(resetDt(a.s, c), c, m, st.pack, editOk)

faultNotFound(s, c, m, pack, editOk) ==
  upsertMessage(resetDt(s, c), c, m, editOk, Display("err_fault", pack, "", "", "", 1))

onFaultSelect(s, c, m, pack, id, editOk) ==
  LET fault == getFaultById(s, pack, id) IN
  IF ~fault.ok THEN faultNotFound(s, c, m, pack, editOk)
  ELSE showFaultCard(s, c, m, pack, fault, editOk)

\* bot.on("callback_query") after the acknowledgement and the debounce
onCallback(s, c, m, d, editOk) ==
  IF d = <<"noop">> THEN s
  ELSE IF d = <<"reset">> \/ d = <<"menu", "mfr">>
  THEN showManufacturerMenu(resetDt(clearReport(s, c), c), c, m, editOk)
  ELSE IF d = <<"r", "new">>
  THEN startReport(resetDt(clearReport(s, c), c), c)
  ELSE IF StartsWith(d, <<"mfr">>)
  THEN LET s1 == resetDt(clearReport(s, c), c) IN
       IF d[2] \in PackNames THEN showMenuOf(s1, c, m, d[2], editOk)
       ELSE showManufacturerMenu(s1, c, m, editOk)
  ELSE IF EndsWith(d, "menu")
  THEN showMenuOf(resetDt(clearReport(s, c), c), c, m, ToLower(d[1]), editOk)
  ELSE IF EndsWith(d, "all")
  THEN LET s1 == resetDt(clearReport(s, c), c) IN
       IF ToLower(d[1]) = "general_dc" THEN showGeneralDcAllMenu(s1, c, m, editOk)
       ELSE showMenuOf(s1, c, m, ToLower(d[1]), editOk)
  ELSE IF d[1] = "RF|"
  THEN LET fault == getFaultById(s, d[2], d[3]) IN
       IF ~fault.ok THEN sendMessage(s, c, "err_report")
       ELSE startReportFromFault(resetDt(clearReport(s, c), c), c, d[2], fault)
  ELSE IF d = <<"dt", "start">> THEN onDtStart(s, c, m, editOk)
  ELSE IF StartsWith(d, <<"dt", "o">>) THEN onDtOption(s, c, m, d, editOk)
  ELSE IF d = <<"dt", "bk">> THEN onDtBack(s, c, m, editOk)
  ELSE IF d = <<"dt", "mn">> THEN onDtMenu(s, c, m, editOk)
  ELSE IF IncludesFault(d)
  THEN onFaultSelect(s, c, m, ToLower(d[1]), JoinRest(d), editOk)
  ELSE IF StartsWith(d, <<"GENERAL_DC">>) THEN onFaultSelect(s, c, m, "general_dc", d[2], editOk)
  ELSE IF StartsWith(d, <<"AUTEL">>) THEN onFaultSelect(s, c, m, "autel", d[2], editOk)
  ELSE IF StartsWith(d, <<"KEMPOWER">>) THEN onFaultSelect(s, c, m, "kempower", d[2], editOk)
  ELSE IF StartsWith(d, <<"TRITIUM">>) THEN onFaultSelect(s, c, m, "tritium", d[2], editOk)
  ELSE s

\* --------------------------------------------------------- report wizard
\* bot.on("message"): the text of a chat with a report in progress is the
\* answer to the current step.  The answers themselves are not kept in the
\* model, the step is.
Texts == {"", "/x", "x", "skip", "done", "clear", "send", "cancel", "CANCEL"}
LowerText(t) == IF t = "CANCEL" THEN "cancel" ELSE t
IsCommandText(t) == t = "/x"
\* a wizard that forgets to ask for the asset id
StepAfter_SkipsAsset(step) ==
  IF step = "site" THEN "chargerIdPublic"
  ELSE IF step = "chargerIdPublic" THEN "chargerSerialNumber"
  ELSE IF step = "chargerSerialNumber" THEN "technician"
  ELSE IF step = "assetId" THEN "technician"
  ELSE IF step = "technician" THEN "clientRef"
  ELSE IF step = "clientRef" THEN "actions"
  ELSE IF step = "faultSummary" THEN "resolution"
  ELSE IF step = "resolution" THEN "notes"
  ELSE "confirm"

StepAfter(step) ==
  IF step = "site" THEN "chargerIdPublic"
  ELSE IF step = "chargerIdPublic" THEN "chargerSerialNumber"
  ELSE IF step = "chargerSerialNumber" THEN "assetId"
  ELSE IF step = "assetId" THEN "technician"
  ELSE IF step = "technician" THEN "clientRef"
  ELSE IF step = "clientRef" THEN "actions"
  ELSE IF step = "faultSummary" THEN "resolution"
  ELSE IF step = "resolution" THEN "notes"
  ELSE "confirm"
SingleAnswerSteps ==
  {"site", "chargerIdPublic", "chargerSerialNumber", "assetId", "technician", "clientRef",
   "faultSummary", "resolution", "notes"}

onMessage(s, c, t) ==
  LET st == s.reportState[c] IN
  IF t = "" \/ IsCommandText(t) \/ ~st.ok THEN s
  ELSE IF LowerText(t) = "cancel" THEN sendMessage(clearReport(s, c), c, "cancelled")
  ELSE IF st.step \in SingleAnswerSteps
  THEN sendMessage([s EXCEPT !.reportState[c].step = StepAfter(st.step)], c, "report")
  ELSE IF st.step = "actions"
  THEN IF LowerText(t) = "done"
       THEN sendMessage([s EXCEPT !.reportState[c].step = "faultSummary"], c, "report")
       ELSE sendMessage(s, c, "text")
  ELSE IF st.step = "confirm"
  THEN IF LowerText(t) = "send"
       THEN sendMessage(clearReport(s, c), c, "posted")
       ELSE sendMessage(s, c, "text")
  ELSE s

\* The clock moves on by gap ms: every chat's last accepted callback is gap
\* ms older.
Elapse(s, gap) ==
  [s EXCEPT !.rl = [x \in Chats |-> IF @[x] + gap < Window THEN @[x] + gap ELSE Window]]

\* a de-duplication that keeps one timestamp for all chats
Debounce_Global(s, c) == [s EXCEPT !.rl = [x \in Chats |-> 0]]

\* lines 1115-1119: the callback is accepted and its time recorded
Debounce(s, c) == [s EXCEPT !.rl[c] = 0]

\* the callback_query handler once the acknowledgement has completed: a
\* callback less than Window after the last accepted one of its chat is
\* dropped, else its time is recorded and it is dispatched
onCallbackQuery(s, c, m, d, editOk) ==
  IF s.rl[c] < Window THEN s
  ELSE onCallback(Debounce(s, c), c, m, d, editOk)

\* ------------------------------------------------------------- commands
onStart(s, c) == showManufacturerMenu(resetDt(clearReport(s, c), c), c, 0, TRUE)
onReset(s, c) ==
  sendMessage(showManufacturerMenu(resetDt(clearReport(s, c), c), c, 0, TRUE), c, "resetdone")
onPackCommand(s, c, pack) == showMenuOf(resetDt(s, c), c, 0, pack, TRUE)
onReport(s, c) == startReport(s, c)
\* a /cancel that clears the report and forgets the decision-tree state
onCancel_NoReset(s, c) == sendMessage(clearReport(s, c), c, "cancelled")

onCancel(s, c) == sendMessage(resetDt(clearReport(s, c), c), c, "cancelled")

\* ---------------------------------------------------------------- inputs
OptSegs == {DigitStr[i + 1] : i \in 0..MaxOpt} \cup {"x"}
DtInputs ==
  {<<"dt", "start">>, <<"dt", "bk">>, <<"dt", "mn">>} \cup {<<"dt", "o", x>> : x \in OptSegs}
NavInputs == {<<"reset">>, <<"autel", "menu">>}
FaultInputs ==
  {<<"autel", "fault", id>> : id \in {"F1", "F2", "F3", "F9"}} \cup {<<"AUTEL", "F1">>}
CbInputs == DtInputs \cup NavInputs \cup FaultInputs

\* ------------------------------------------------------------- the machine
AssignState(r) ==
  /\ ~r.ovf
  /\ packs' = r.packs
  /\ dtState' = r.dtState
  /\ dtMsgState' = r.dtMsgState
  /\ alias' = r.alias
  /\ reportState' = r.reportState
  /\ nmsg' = r.nmsg
  /\ view' = r.view
  /\ rl' = r.rl

Assign(r) == AssignState(r) /\ UNCHANGED pending

Init ==
  /\ packs \in Authorings
  /\ dtState = [c \in Chats |-> NoDt]
  /\ dtMsgState = [c \in Chats |-> [m \in MsgIds |-> NoDt]]
  /\ alias = [c \in Chats |-> [h \in Holders |-> h]]
  /\ reportState = [c \in Chats |-> NoReport]
  /\ nmsg = [c \in Chats |-> 0]
  /\ view = [c \in Chats |-> NoView]
  /\ rl = [c \in Chats |-> Window]
  /\ pending = [c \in Chats |-> << >>]

\* a button press on message m of chat c, delivered to the handler Window
\* ms or more after the last accepted one
Callback(c, m, d, editOk) ==
  /\ m \in 1..nmsg[c]
  /\ Assign(onCallbackQuery(Elapse(Cur, Window), c, m, d, editOk))

CmdStart(c) == Assign(onStart(Cur, c))
CmdCancel(c) == Assign(onCancel(Cur, c))

Next ==
  \E c \in OneChat :
    \/ \E m \in MsgIds, d \in CbInputs, editOk \in BOOLEAN : Callback(c, m, d, editOk)
    \/ CmdStart(c)
    \/ CmdCancel(c)

Spec == Init /\ [][Next]_vars

TypeOK ==
  /\ \A c \in Chats : nmsg[c] \in 0..Cardinality(MsgIds)
  /\ \A c \in Chats : \A h \in Holders : alias[c][h] <= h
  /\ \A c \in Chats : \A m \in MsgIds :
       alias[c][m] = alias[c][0] => dtMsgState[c][m].history = dtState[c].history

\* ------------------------------------------------------------ properties
DtStart == <<"dt", "start">>
DtBack == <<"dt", "bk">>
DtMenu == <<"dt", "mn">>
DtOpt(i) == <<"dt", "o", DigitStr[i + 1]>>
OptIndices == 0..MaxOpt

\* a press of button d on message m, the edit succeeding
Press(s, c, m, d) == onCallback(s, c, m, d, TRUE)
Sent(c) == 1..nmsg[c]
SessionHistory(s, c) == s.dtState[c].history
\* the state an operation works on: the session state, else the state bound
\* to the originating message
ActiveState(c, m) == getActiveDtState(Cur, c, m).st
IsActive(st) == st.pack # "" /\ st.faultId # ""
Max0(x) == IF x > 0 THEN x ELSE 0
IsNodeView(v, fault, node) == v.kind = "node" /\ v.fault = fault /\ v.node = node

\* C1: from the fault card of autel F1 (tree n1 -> n2), dt:start leaves
\* history [n1]; dt:o:0 then leaves [n1, n2] and renders n2's prompt; dt:bk
\* then leaves [n1] and renders n1's prompt again; a second dt:bk renders the
\* Fault Card and leaves the history empty.
C1_Scenario ==
  \A c \in Chats : \A m \in Sent(c) :
    (view[c].kind = "card" /\ view[c].pack = "autel" /\ view[c].fault = "F1" /\ view[c].msg = m)
    => LET s1 == Press(Cur, c, m, DtStart)
           s2 == Press(s1, c, m, DtOpt(0))
           s3 == Press(s2, c, m, DtBack)
           s4 == Press(s3, c, m, DtBack)
       IN /\ SessionHistory(s1, c) = <<"n1">>
          /\ SessionHistory(s2, c) = <<"n1", "n2">>
          /\ IsNodeView(s2.view[c], "F1", "n2") /\ s2.view[c].text = "B"
          /\ SessionHistory(s3, c) = <<"n1">>
          /\ IsNodeView(s3.view[c], "F1", "n1") /\ s3.view[c].text = "A"
          /\ s4.view[c].kind = "card" /\ s4.view[c].fault = "F1"
          /\ s4.dtState[c].ok /\ SessionHistory(s4, c) = << >>

\* F1's card is on display and the four presses of the scenario end on the
\* card again
C1_Witness ==
  \E c \in Chats : \E m \in Sent(c) :
    /\ view[c].kind = "card" /\ view[c].pack = "autel" /\ view[c].fault = "F1"
    /\ view[c].msg = m
    /\ LET s3 == Press(Press(Press(Cur, c, m, DtStart), c, m, DtOpt(0)), c, m, DtBack)
       IN /\ SessionHistory(s3, c) = <<"n1">>
          /\ Press(s3, c, m, DtBack).view[c].kind = "card"

\* C2: a goBack (dt:bk) on an active fault leaves the session history with
\* exactly max(0, priorLength - 1) entries, priorLength being the length of
\* the history the operation found.
C2_GoBackLength ==
  \A c \in Chats : \A m \in Sent(c) : \A e \in BOOLEAN :
    LET st == ActiveState(c, m)
        r == onCallback(Cur, c, m, DtBack, e)
    IN (IsActive(st) /\ ~r.ovf)
       => /\ r.dtState[c].ok
          /\ Len(SessionHistory(r, c)) = Max0(Len(st.history) - 1)

\* a dt:bk finds two entries and leaves one
C2_Witness ==
  \E c \in Chats : \E m \in Sent(c) :
    /\ IsActive(ActiveState(c, m)) /\ Len(ActiveState(c, m).history) = 2
    /\ Len(SessionHistory(Press(Cur, c, m, DtBack), c)) = 1

\* what a dt:o:<i> press on message m resolves: the active fault, the node
\* it acts on and the next target of option i ("" when there is none)
ActiveFault(c, m) ==
  LET st == ActiveState(c, m) IN getFaultById(Cur, st.pack, st.faultId)
HasTree(fault) == fault.tree.hasNodes /\ fault.tree.start # ""
ActiveNodeId(c, m) == CurrentNodeId(ActiveState(c, m), ActiveFault(c, m).tree)
ActiveOptions(c, m) == LookupNode(ActiveFault(c, m).tree, ActiveNodeId(c, m)).node.options
Target(c, m, i) ==
  IF IsActive(ActiveState(c, m)) /\ HasTree(ActiveFault(c, m))
  THEN OptionNext(ActiveOptions(c, m), i)
  ELSE ""
IsTreeNode(fault, nodeId) == fault.tree.hasNodes /\ nodeId \in DOMAIN fault.tree.nodes

AdvanceLength(c, m, i, e) ==
  LET st == ActiveState(c, m)
      r == onCallback(Cur, c, m, DtOpt(i), e)
  IN ~r.ovf =>
       Len(SessionHistory(r, c)) =
         IF Target(c, m, i) = Last(st.history) THEN Len(st.history) ELSE Len(st.history) + 1

C4_BackTerminal ==
  \A c \in Chats : \A m \in Sent(c) : \A m2 \in Sent(c) :
    LET st == ActiveState(c, m)
        r1 == Press(Cur, c, m, DtBack)
        r2 == Press(r1, c, m2, DtBack)
    IN (IsActive(st) /\ Len(st.history) = 1)
       => /\ r1.out = "card" /\ r1.view[c].kind = "card"
          /\ r1.view[c].fault = st.faultId
          /\ r1.dtState[c].ok /\ SessionHistory(r1, c) = << >>
          /\ r2.out = "card" /\ r2.view[c].kind = "card"
          /\ r2.view[c].fault = st.faultId
          /\ r2.dtState[c].ok /\ SessionHistory(r2, c) = << >>

\* a goBack finds one entry and renders the card, and so does the next
C4_Witness ==
  \E c \in Chats : \E m \in Sent(c) :
    /\ IsActive(ActiveState(c, m)) /\ Len(ActiveState(c, m).history) = 1
    /\ Press(Cur, c, m, DtBack).view[c].kind = "card"
    /\ Press(Press(Cur, c, m, DtBack), c, m, DtBack).view[c].kind = "card"
    /\ SessionHistory(Press(Press(Cur, c, m, DtBack), c, m, DtBack), c) = << >>

\* C5: rendering the same existing node twice in a row for the same session,
\* pack and fault leaves the session history after the second render equal
\* to the history after the first.
PackFaults(p) == {PackContent(packs)[p][i] : i \in 1..Len(PackContent(packs)[p])}
C5_RenderTwice ==
  \A c \in Chats : \A m \in Sent(c) : \A p \in PackNames : \A f \in PackFaults(p) :
    \A n \in DOMAIN f.tree.nodes : \A e1 \in BOOLEAN : \A e2 \in BOOLEAN :
      LET r1 == renderNode(Cur, c, m, p, f, n, e1)
          r2 == renderNode(r1, c, m, p, f, n, e2)
      IN (~r1.ovf /\ ~r2.ovf)
         => /\ r2.dtState[c].ok
            /\ Last(SessionHistory(r1, c)) = n
            /\ SessionHistory(r2, c) = SessionHistory(r1, c)

\* node n2 of F1 is on top of the history and is rendered twice more
C5_Witness ==
  \E c \in Chats : \E m \in Sent(c) :
    LET f == getFaultById(Cur, "autel", "F1")
        r1 == renderNode(Cur, c, m, "autel", f, "n2", TRUE)
        r2 == renderNode(r1, c, m, "autel", f, "n2", TRUE)
    IN /\ dtState[c].faultId = "F1" /\ dtState[c].history = <<"n1", "n2">>
       /\ SessionHistory(r1, c) = <<"n1", "n2">> /\ SessionHistory(r2, c) = <<"n1", "n2">>

\* C6: message m has rendered a node and holds a message-bound state, and
\* one more press has been handled on another message; an advance (dt:o:<i>)
\* from m after the session state was cleared then yields the same view and
\* the same session pack, faultId and history as the same advance yields when
\* the session state is not cleared.
SameOutcome(r1, r2, c) ==
  /\ r1.out = r2.out
  /\ r1.view[c] = r2.view[c]
  /\ r1.dtState[c].ok = r2.dtState[c].ok
  /\ r1.dtState[c].pack = r2.dtState[c].pack
  /\ r1.dtState[c].faultId = r2.dtState[c].faultId
  /\ r1.dtState[c].history = r2.dtState[c].history
C6_RecoveryEquivalent ==
  \A c \in Chats : \A m \in Sent(c) : \A m2 \in Sent(c) \ {m} :
    \A d1 \in CbInputs : \A d2 \in CbInputs : \A i \in OptIndices :
      LET r1 == Press(Cur, c, m, d1)
          r2 == Press(r1, c, m2, d2)
      IN (r1.out = "node" /\ r1.view[c].msg = m /\ r2.dtState[c].ok /\ r2.dtMsgState[c][m].ok)
         => SameOutcome(Press(resetDt(r2, c), c, m, DtOpt(i)), Press(r2, c, m, DtOpt(i)), c)

\* C7: when message m has been rendered with node N of fault F and one more
\* action has been handled through another message, pressing option i of N
\* on m renders the next target of that option in F's tree on m.
ViewFault(s, c) == getFaultById(s, s.view[c].pack, s.view[c].fault)
ViewTarget(s, c, i) ==
  OptionNext(LookupNode(ViewFault(s, c).tree, s.view[c].node).node.options, i)
C7_StalePress ==
  \A c \in Chats : \A m \in Sent(c) : \A m2 \in Sent(c) \ {m} :
    \A d1 \in CbInputs : \A d2 \in CbInputs : \A i \in OptIndices :
      LET r1 == Press(Cur, c, m, d1)
          r2 == Press(r1, c, m2, d2)
          r3 == Press(r2, c, m, DtOpt(i))
      IN (r1.out = "node" /\ r1.view[c].msg = m
            /\ IsTreeNode(ViewFault(r1, c), ViewTarget(r1, c, i)))
         => /\ IsNodeView(r3.view[c], r1.view[c].fault, ViewTarget(r1, c, i))
            /\ r3.view[c].msg = m

\* C8: an advance whose target is a route token, the designated general_dc
\* fault existing with a start node (a node of its tree), renders that start
\* node and leaves the session bound to general_dc and that fault with
\* history [start node].
RouteLands(r, c, rf) ==
  /\ r.out = "node"
  /\ IsNodeView(r.view[c], rf.id, rf.tree.start) /\ r.view[c].pack = "general_dc"
  /\ r.dtState[c].ok
  /\ r.dtState[c].pack = "general_dc" /\ r.dtState[c].faultId = rf.id
  /\ r.dtState[c].history = <<rf.tree.start>>
MenuPack(tok) ==
  IF tok = MENU_GENERAL_DC THEN "general_dc"
  ELSE IF tok = MENU_KEMPOWER THEN "kempower"
  ELSE IF tok = MENU_AUTEL THEN "autel"
  ELSE "tritium"
IsMenuView(v, pack) == v.kind = "packmenu" /\ v.pack = pack

\* C9 as stated: an advance whose target is a menu-jump token renders the
\* named pack's menu and leaves the session history as it was.
C9_MenuJumpKeepsHistory ==
  \A c \in Chats : \A m \in Sent(c) : \A i \in OptIndices : \A e \in BOOLEAN :
    LET st == ActiveState(c, m)
        r == onCallback(Cur, c, m, DtOpt(i), e)
    IN (Target(c, m, i) \in MenuTokens /\ ~r.ovf)
       => /\ IsMenuView(r.view[c], MenuPack(Target(c, m, i)))
          /\ SessionHistory(r, c) = st.history

\* C9 amended: an advance whose target is a menu-jump token renders the
\* named pack's menu, pushes nothing, removes the session-level state (its
\* history included) and leaves every message-bound state unchanged.
C9_MenuJump ==
  \A c \in Chats : \A m \in Sent(c) : \A i \in OptIndices : \A e \in BOOLEAN :
    LET r == onCallback(Cur, c, m, DtOpt(i), e)
    IN (Target(c, m, i) \in MenuTokens /\ ~r.ovf)
       => /\ r.out = "packmenu"
          /\ IsMenuView(r.view[c], MenuPack(Target(c, m, i)))
          /\ r.dtState[c] = NoDt
          /\ r.dtMsgState = dtMsgState

\* the menu jump of node a of F2 is chosen with a on the history and renders
\* the autel menu
C9_Witness ==
  \E c \in Chats : \E m \in Sent(c) : \E i \in OptIndices :
    /\ Target(c, m, i) = MENU_AUTEL /\ ActiveState(c, m).history = <<"a">>
    /\ IsMenuView(Press(Cur, c, m, DtOpt(i)).view[c], "autel")
    /\ ~Press(Cur, c, m, DtOpt(i)).dtState[c].ok

\* C10: an advance (dt:o:<i>) on an active fault with a tree, i not below the
\* number of options of the current node, sends the "option is missing a
\* next node" error and leaves the session history as the operation found it.
C10_IndexOutOfRange ==
  \A c \in Chats : \A m \in Sent(c) : \A i \in OptIndices : \A e \in BOOLEAN :
    LET st == ActiveState(c, m)
        r == onCallback(Cur, c, m, DtOpt(i), e)
    IN (IsActive(st) /\ HasTree(ActiveFault(c, m)) /\ i >= Len(ActiveOptions(c, m)))
       => /\ r.out = "err_nonext" /\ r.view[c].kind = "err_nonext"
          /\ r.dtState[c].ok
          /\ r.dtState[c].pack = st.pack /\ r.dtState[c].faultId = st.faultId
          /\ SessionHistory(r, c) = st.history

\* index 1 is pressed at n1, which has one option
C10_Witness ==
  \E c \in Chats : \E m \in Sent(c) :
    /\ ActiveState(c, m).faultId = "F1" /\ ActiveState(c, m).history = <<"n1">>
    /\ Len(ActiveOptions(c, m)) = 1
    /\ Press(Cur, c, m, DtOpt(1)).out = "err_nonext"
    /\ SessionHistory(Press(Cur, c, m, DtOpt(1)), c) = <<"n1">>

\* C11: an advance (dt:o:0) in a chat that has neither a session state nor a
\* message-bound state for the originating message sends the "no active
\* fault" message and creates no session state and no message-bound state.
C11_NoActiveFault ==
  \A c \in Chats : \A m \in Sent(c) : \A e \in BOOLEAN :
    LET r == onCallback(Cur, c, m, DtOpt(0), e)
    IN (~dtState[c].ok /\ ~dtMsgState[c][m].ok)
       => /\ r.out = "err_noactive" /\ r.view[c].kind = "err_noactive"
          /\ r.dtState = dtState
          /\ r.dtMsgState = dtMsgState

\* a menu message is pressed with dt:o:0 while nothing is bound
C11_Witness ==
  \E c \in Chats : \E m \in Sent(c) :
    /\ ~dtState[c].ok /\ ~dtMsgState[c][m].ok
    /\ Press(Cur, c, m, DtOpt(0)).out = "err_noactive"
    /\ ~Press(Cur, c, m, DtOpt(0)).dtState[c].ok

\* C12: every dt:start, dt:o:<i>, dt:bk and dt:mn action that passed the
\* de-duplication window produces some view (an edited or a newly sent
\* message), whatever the session state and the pack content are.
C12_Total ==
  \A c \in Chats : \A m \in Sent(c) : \A d \in DtInputs : \A e \in BOOLEAN :
    LET r == onCallback(Cur, c, m, d, e)
    IN ~r.ovf => r.out \notin {"silent", "diverge"}

\* C13: every error view (no active fault, no decision tree, option missing
\* a next node, route fault missing, node not found, fault not found)
\* carries at least one navigation button.
ErrorKinds ==
  {"err_noactive", "err_notree", "err_nonext", "err_route", "err_node", "err_fault"}
C13_ErrorViewsHaveButton ==
  \A c \in Chats : \A m \in Sent(c) : \A d \in CbInputs : \A e \in BOOLEAN :
    LET r == onCallback(Cur, c, m, d, e)
    IN (~r.ovf /\ r.out \in ErrorKinds) => r.view[c].n >= 1

\* C14: in every reachable state no session history and no message-bound
\* history holds two equal consecutive node ids.
NoRepeat(h) == \A i \in 1..(Len(h) - 1) : h[i] # h[i + 1]
C14_NoConsecutiveDuplicates ==
  \A c \in Chats :
    /\ NoRepeat(dtState[c].history)
    /\ \A m \in MsgIds : NoRepeat(dtMsgState[c][m].history)

\* the button of node a that leads to a itself is pressed twice in a row
C14_Witness ==
  \E c \in Chats : \E m \in Sent(c) :
    /\ ActiveState(c, m).history = <<"a">> /\ Target(c, m, 0) = "a"
    /\ SessionHistory(Press(Press(Cur, c, m, DtOpt(0)), c, m, DtOpt(0)), c) = <<"a">>
    /\ Press(Press(Cur, c, m, DtOpt(0)), c, m, DtOpt(0)).dtMsgState[c][m].history = <<"a">>

\* ------------------------------------------- the machine, every entry point
\* callback data of the reset and menu-navigation buttons; "zz" stands for a
\* pack name outside the enumeration
NavPacks == PackNames \cup {"zz", "AUTEL"}
ResetCbInputs ==
  {<<"reset">>, <<"menu", "mfr">>}
    \cup {<<"mfr", p>> : p \in NavPacks}
    \cup {<<p, "menu">> : p \in NavPacks}
    \cup {<<p, "all">> : p \in NavPacks}
\* callback data of the report entry points
ReportCbInputs == {<<"r", "new">>, <<"RF|", "autel", "F1">>, <<"RF|", "autel", "F9">>}
\* the callbacks that only SpecFull delivers
MoreCbInputs ==
  {<<"menu", "mfr">>, <<"mfr", "autel">>, <<"mfr", "zz">>, <<"general_dc", "all">>,
   <<"zz", "all">>} \cup ReportCbInputs

CmdReset(c) == Assign(onReset(Cur, c))
CmdPack(c, p) == Assign(onPackCommand(Cur, c, p))
CmdReport(c) == Assign(onReport(Cur, c))

NextFull ==
  \E c \in OneChat :
    \/ \E m \in MsgIds, d \in CbInputs \cup MoreCbInputs, editOk \in BOOLEAN :
         Callback(c, m, d, editOk)
    \/ CmdStart(c)
    \/ CmdCancel(c)
    \/ CmdReset(c)
    \/ \E p \in PackNames : CmdPack(c, p)
    \/ CmdReport(c)

SpecFull == Init /\ [][NextFull]_vars

\* C15: in every reachable state in which the most recent view of a chat is
\* a decision-tree node, the chat's session history is not empty and its top
\* entry is the id of that node.
C15_TopIsDisplayedNode ==
  \A c \in Chats :
    view[c].kind = "node"
    => /\ dtState[c].ok
       /\ Len(dtState[c].history) > 0
       /\ Last(dtState[c].history) = view[c].node

\* C16: after a reset or menu-navigation action (callbacks reset, menu:mfr,
\* mfr:<x>, <pack>:menu, <pack>:all; commands /start, /reset, /cancel and
\* the four pack commands) the chat has no session-level state.
C16_NavigationClearsSession ==
  \A c \in Chats :
    /\ \A m \in Sent(c) : \A d \in ResetCbInputs : \A e \in BOOLEAN :
         ~onCallback(Cur, c, m, d, e).dtState[c].ok
    /\ ~onStart(Cur, c).dtState[c].ok
    /\ ~onReset(Cur, c).dtState[c].ok
    /\ ~onCancel(Cur, c).dtState[c].ok
    /\ \A p \in PackNames : ~onPackCommand(Cur, c, p).dtState[c].ok

\* a session with a history is there and is gone after <pack>:menu and
\* after /cancel
C16_Witness ==
  \E c \in Chats : \E m \in Sent(c) :
    /\ dtState[c].ok /\ Len(dtState[c].history) = 2
    /\ ~Press(Cur, c, m, <<"autel", "menu">>).dtState[c].ok
    /\ ~onCancel(Cur, c).dtState[c].ok

\* C17: after a report is started by any entry point (/report, r:new, or
\* RF|<pack>|<faultId> for an existing fault) the chat has no session-level
\* decision-tree state.
C17_ReportClearsSession ==
  \A c \in Chats :
    /\ ~onReport(Cur, c).dtState[c].ok
    /\ \A m \in Sent(c) : \A e \in BOOLEAN :
         /\ ~onCallback(Cur, c, m, <<"r", "new">>, e).dtState[c].ok
         /\ \A f \in PackFaults("autel") :
              ~onCallback(Cur, c, m, <<"RF|", "autel", f.id>>, e).dtState[c].ok

\* C20: no engine operation is suspended in the middle of a transition: in
\* every dt:* handler the stores have their final value when the first send
\* or edit is handed to the Bot API (nothing is written after it), whether
\* the edit then succeeds or falls back to a new message.
C20_TransitionBeforeSend ==
  \A c \in Chats : \A m \in Sent(c) : \A d \in DtInputs : \A e \in BOOLEAN :
    LET r == onCallback(Cur, c, m, d, e)
    IN r.atSend # << >> => r.atSend[1] = Stores(r)

\* a dt:* press that changes the stores and whose edit fails, so that the
\* handler is suspended at the edit and resumes with the fallback send
C20_Witness ==
  \E c \in Chats : \E m \in Sent(c) : \E d \in DtInputs :
    LET r == onCallback(Cur, c, m, d, FALSE)
    IN /\ ~r.ovf /\ r.out = "node"
       /\ r.atSend # << >>
       /\ Stores(r) # Stores(Cur)
       /\ r.atSend[1] = Stores(r)

\* ------------------------------------------------------ acknowledgements
\* The handler first awaits answerCallbackQuery (line 1112) and reads the
\* stores only when that request has completed.  Deliver is the event loop
\* calling the handler, which suspends at the await; AckDone is the
\* completion of the request of any suspended call, after which the rest of
\* that call runs to its return.  gap is the time since the previous event.
MaxPending == 2
Gaps == {0, Window - 1, Window}
AsyncInputs == {<<"autel", "fault", "F1">>, <<"dt", "start">>, <<"dt", "o", "0">>, <<"dt", "bk">>}
Without(q, k) == [i \in 1..(Len(q) - 1) |-> IF i < k THEN q[i] ELSE q[i + 1]]

Deliver(c, m, d) ==
  /\ m \in 1..nmsg[c]
  /\ Len(pending[c]) < MaxPending
  /\ pending' = [pending EXCEPT ![c] = Append(@, [m |-> m, d |-> d])]
  /\ UNCHANGED <<packs, dtState, dtMsgState, alias, reportState, nmsg, view, rl>>

AckDone(c, k, editOk, gap) ==
  /\ k \in 1..Len(pending[c])
  /\ AssignState(onCallbackQuery(Elapse(Cur, gap), c, pending[c][k].m, pending[c][k].d, editOk))
  /\ pending' = [pending EXCEPT ![c] = Without(@, k)]

NextAsync ==
  \E c \in OneChat :
    \/ CmdStart(c)
    \/ \E m \in MsgIds, d \in AsyncInputs : Deliver(c, m, d)
    \/ \E k \in 1..MaxPending, editOk \in BOOLEAN, gap \in Gaps : AckDone(c, k, editOk, gap)

SpecAsync == Init /\ [][NextAsync]_vars

\* C18: for one chat the transitions of two presses are applied in the order
\* in which the presses were delivered to the handler, whatever the order
\* in which their acknowledgements complete: the press whose transition is
\* applied is the oldest one still waiting.
C18_InOrder ==
  [][\A c \in Chats :
       Len(pending'[c]) < Len(pending[c]) => pending'[c] = Tail(pending[c])]_vars

\* ------------------------------------------------------------- two chats
\* Both chats act, each on its first message: the first chat with presses
\* that take it into a tree and back and with the whole report wizard, the
\* second one with the presses that take it into a tree and into a report;
\* time passes, so that a press arrives within the window of the last
\* accepted one or after it.
ChatInputs(c) ==
  IF c \in OneChat
  THEN {<<"autel", "fault", "F1">>, <<"dt", "start">>, <<"dt", "o", "0">>, <<"dt", "bk">>,
        <<"r", "new">>}
  ELSE {<<"autel", "fault", "F1">>, <<"dt", "start">>, <<"r", "new">>}
ChatTexts(c) == IF c \in OneChat THEN {"x", "done", "send"} ELSE {"cancel"}

FirstStart(c) == nmsg[c] = 0 /\ CmdStart(c)
CallbackNow(c, m, d, editOk) ==
  /\ m \in 1..nmsg[c]
  /\ Assign(onCallbackQuery(Cur, c, m, d, editOk))
Message(c, t) == Assign(onMessage(Cur, c, t))
Tick(gap) == Assign(Elapse(Cur, gap))

NextChats ==
  \/ \E c \in Chats :
       \/ FirstStart(c)
       \/ \E m \in MsgIds, d \in ChatInputs(c) : CallbackNow(c, m, d, TRUE)
       \/ \E t \in ChatTexts(c) : Message(c, t)
  \/ Tick(Window)

InitChats == Init /\ packs = "ok"
SpecChats == InitChats /\ [][NextChats]_vars

\* what handling an event of another chat must leave alone in chat b
SameChat(s, r, b) ==
  /\ r.dtState[b] = s.dtState[b]
  /\ r.dtMsgState[b] = s.dtMsgState[b]
  /\ r.alias[b] = s.alias[b]
  /\ r.reportState[b] = s.reportState[b]
  /\ r.rl[b] = s.rl[b]

\* C19: handling a callback, a command or a text message of chat a leaves
\* the session state, every message-bound state, the report state and the
\* de-duplication time of every other chat b unchanged.
C19_NoCrossChat ==
  \A a \in Chats : \A b \in Chats \ {a} : \A s \in {Cur, Elapse(Cur, Window)} :
    /\ \A m \in Sent(a) : \A d \in CbInputs \cup MoreCbInputs : \A e \in BOOLEAN :
         SameChat(s, onCallbackQuery(s, a, m, d, e), b)
    /\ SameChat(s, onStart(s, a), b)
    /\ SameChat(s, onReset(s, a), b)
    /\ SameChat(s, onCancel(s, a), b)
    /\ SameChat(s, onReport(s, a), b)
    /\ \A p \in PackNames : SameChat(s, onPackCommand(s, a, p), b)
    /\ \A t \in Texts : SameChat(s, onMessage(s, a, t), b)

\* chat b is inside a tree with a report in progress and a recent accepted
\* press, while a press of chat a is accepted and moves a's session
C19_Witness ==
  \E a \in Chats : \E b \in Chats \ {a} : \E m \in Sent(a) :
    LET r == onCallbackQuery(Cur, a, m, <<"dt", "start">>, TRUE)
    IN /\ dtState[b].ok /\ Len(dtState[b].history) > 0
       /\ reportState[b].ok
       /\ rl[b] < Window
       /\ r.out = "node" /\ r.dtState[a] # dtState[a] /\ r.rl[a] # rl[a]
       /\ SameChat(Cur, r, b)

\* fault ids pressed: those of the pack's file, one that no pack has, and
\* ids that read like other callback data
PressedIds(p) == {f.id : f \in PackFaults(p)} \cup {"F9", "menu", "all", "fault", ""}

\* C21: for every pack of the enumeration and every fault id, the legacy
\* callback <PACK_UPPER>:<id> and <pack>:fault:<id>, issued from the same
\* state, produce the same view and the same session-level and
\* message-bound state.
C21_LegacyEquivalent ==
  \A c \in Chats : \A m \in Sent(c) : \A p \in PackNames : \A id \in PressedIds(p) :
    \A e \in BOOLEAN :
      LET r1 == onCallback(Cur, c, m, cbFault(p, id), e)
          r2 == onCallback(Cur, c, m, cbLegacy(p, id), e)
      IN /\ r1.ovf = r2.ovf
         /\ r1.out = r2.out
         /\ r1.view[c] = r2.view[c]
         /\ r1.dtState[c] = r2.dtState[c]
         /\ r1.dtMsgState[c] = r2.dtMsgState[c]
         /\ r1.alias[c] = r2.alias[c]

\* C22: dt:mn renders the menu of the pack recorded in the active state (the
\* session state, else the state bound to the originating message) and
\* leaves the chat without session state; when no pack is known it renders
\* the manufacturer selection and leaves no session state either.
C22_GoToPackMenu ==
  \A c \in Chats : \A m \in Sent(c) : \A e \in BOOLEAN :
    LET st == ActiveState(c, m)
        r == onCallback(Cur, c, m, DtMenu, e)
    IN /\ ~r.dtState[c].ok
       /\ ~r.ovf =>
            IF st.pack # ""
            THEN r.out = "packmenu" /\ IsMenuView(r.view[c], st.pack)
            ELSE r.out = "mfrmenu" /\ r.view[c].kind = "mfrmenu"

\* dt:mn on a message bound to general_dc when the session state is gone,
\* and dt:mn where nothing is known
C22_Witness ==
  \E c \in Chats : \E m \in Sent(c) : \E m2 \in Sent(c) :
    /\ ~dtState[c].ok
    /\ dtMsgState[c][m].ok /\ dtMsgState[c][m].pack = "general_dc"
    /\ IsMenuView(Press(Cur, c, m, DtMenu).view[c], "general_dc")
    /\ ~Press(Cur, c, m, DtMenu).dtState[c].ok
    /\ ~dtMsgState[c][m2].ok
    /\ Press(Cur, c, m2, DtMenu).view[c].kind = "mfrmenu"

BoundKeys(s) == {<<c, m>> \in Chats \X MsgIds : s.dtMsgState[c][m].ok}

\* C23: the message-bound mapping is append-only: no operation (reset, menu
\* navigation, dt:mn and report start included) removes a (chat, message)
\* key that has a message-bound state.
KeepsKeys(r) == BoundKeys(Cur) \subseteq BoundKeys(r)
C23_AppendOnly ==
  \A c \in Chats :
    /\ \A m \in Sent(c) : \A d \in CbInputs \cup MoreCbInputs : \A e \in BOOLEAN :
         KeepsKeys(onCallback(Cur, c, m, d, e))
    /\ KeepsKeys(onStart(Cur, c)) /\ KeepsKeys(onReset(Cur, c))
    /\ KeepsKeys(onCancel(Cur, c)) /\ KeepsKeys(onReport(Cur, c))
    /\ \A p \in PackNames : KeepsKeys(onPackCommand(Cur, c, p))
    /\ \A t \in Texts : KeepsKeys(onMessage(Cur, c, t))

\* a message has a bound state, the session state is there, and reset, dt:mn
\* and r:new remove the session state and keep the key
C23_Witness ==
  \E c \in Chats : \E m \in Sent(c) :
    /\ dtState[c].ok /\ <<c, m>> \in BoundKeys(Cur)
    /\ \A d \in {<<"reset">>, DtMenu, <<"r", "new">>} :
         /\ ~Press(Cur, c, m, d).dtState[c].ok
         /\ <<c, m>> \in BoundKeys(Press(Cur, c, m, d))

\* C24: the message-bound state of (chat, M) changes only while an action
\* that originates from message M is handled: every action that originates
\* from another message of the chat, and every command and text, leaves it
\* unchanged (pushes made through another message included).
C24_OtherMessagesUntouched ==
  \A c \in Chats :
    /\ \A m \in Sent(c) : \A d \in CbInputs \cup MoreCbInputs : \A e \in BOOLEAN :
         \A m2 \in MsgIds \ {m} :
           onCallback(Cur, c, m, d, e).dtMsgState[c][m2] = dtMsgState[c][m2]
    /\ \A m2 \in MsgIds :
         /\ onStart(Cur, c).dtMsgState[c][m2] = dtMsgState[c][m2]
         /\ onCancel(Cur, c).dtMsgState[c][m2] = dtMsgState[c][m2]
         /\ onReport(Cur, c).dtMsgState[c][m2] = dtMsgState[c][m2]
         /\ \A t \in Texts : onMessage(Cur, c, t).dtMsgState[c][m2] = dtMsgState[c][m2]

\* a view with tree content: a tree node, or a fault card with a start button
TreeContent(v) == v.kind = "node" \/ (v.kind = "card" /\ v.n >= 1)

\* C25: every message rendered with tree content has a message-bound state
\* under its own (chat, message) key, a message newly sent because the edit
\* of the originating message failed included.
C25_RenderedMessageIsBound ==
  \A c \in Chats : \A m \in Sent(c) : \A d \in CbInputs \cup MoreCbInputs : \A e \in BOOLEAN :
    LET r == onCallback(Cur, c, m, d, e)
    IN (~r.ovf /\ r.out \in {"node", "card"} /\ TreeContent(r.view[c]))
       => r.dtMsgState[c][r.view[c].msg].ok

\* C26: immediately after an action that originates from message M and
\* renders a tree node or a fault card, the message-bound state of
\* (chat, M) has the pack, faultId and history of the session state.
C26_BoundMatchesSession ==
  \A c \in Chats : \A m \in Sent(c) : \A d \in CbInputs \cup MoreCbInputs : \A e \in BOOLEAN :
    LET r == onCallback(Cur, c, m, d, e)
        ss == r.dtState[c]
        ms == r.dtMsgState[c][m]
    IN (~r.ovf /\ r.out \in {"node", "card"})
       => /\ ss.ok /\ ms.ok
          /\ ms.pack = ss.pack /\ ms.faultId = ss.faultId /\ ms.history = ss.history

\* a go-back from a message whose bound history is not the session's
C26_Witness ==
  \E c \in Chats : \E m \in Sent(c) :
    LET r == Press(Cur, c, m, DtBack)
    IN /\ dtState[c].ok /\ Len(dtState[c].history) = 2
       /\ dtMsgState[c][m].history # dtState[c].history
       /\ r.out = "node" /\ r.dtMsgState[c][m].history = r.dtState[c].history
       /\ Len(r.dtState[c].history) = 1

\* C27: the recovery returns the session state whenever there is one,
\* whatever is bound to the originating message; only without a session
\* state does it return the state bound to the originating message, and the
\* session state then has that pack, faultId and history; when both are
\* absent it returns none and creates nothing.
C27_Recovery ==
  \A c \in Chats : \A m \in Sent(c) :
    LET a == getActiveDtState(Cur, c, m)
        ss == dtState[c]
        ms == dtMsgState[c][m]
    IN /\ ss.ok => a.st = ss /\ a.s = Cur
       /\ (~ss.ok /\ ms.ok) =>
            /\ a.st = ms
            /\ a.s.dtState[c].ok
            /\ a.s.dtState[c].pack = ms.pack
            /\ a.s.dtState[c].faultId = ms.faultId
            /\ a.s.dtState[c].history = ms.history
            /\ a.s.dtMsgState = dtMsgState
       /\ (~ss.ok /\ ~ms.ok) => ~a.st.ok /\ a.s = Cur

\* no session state and a bound history on m, which the recovery makes the
\* session state; that session state then wins over what is bound to m2
C27_Witness ==
  \E c \in Chats : \E m \in Sent(c) : \E m2 \in Sent(c) :
    LET a == getActiveDtState(Cur, c, m)
    IN /\ ~dtState[c].ok
       /\ dtMsgState[c][m].ok /\ Len(dtMsgState[c][m].history) > 0
       /\ a.s.dtState[c].history = dtMsgState[c][m].history
       /\ dtMsgState[c][m2].ok /\ dtMsgState[c][m2].faultId # dtMsgState[c][m].faultId
       /\ getActiveDtState(a.s, c, m2).st = a.s.dtState[c]

\* C28 as stated: a goBack that finds at least two history entries renders
\* the popped-to node and leaves the history as long as it was before the
\* pop.
C28_GoBackRestoresDepth ==
  \A c \in Chats : \A m \in Sent(c) : \A e \in BOOLEAN :
    LET st == ActiveState(c, m)
        r == onCallback(Cur, c, m, DtBack, e)
    IN (IsActive(st) /\ Len(st.history) >= 2 /\ ~r.ovf)
       => /\ IsNodeView(r.view[c], st.faultId, st.history[Len(st.history) - 1])
          /\ Len(SessionHistory(r, c)) = Len(st.history)

\* C28 amended: a goBack that finds at least two history entries renders the
\* popped-to node; the node is the top of the popped history already, so it
\* is not pushed again, and the history is the one found without its last
\* entry.
C28_GoBackDepth ==
  \A c \in Chats : \A m \in Sent(c) : \A e \in BOOLEAN :
    LET st == ActiveState(c, m)
        n == Len(st.history)
        r == onCallback(Cur, c, m, DtBack, e)
    IN (IsActive(st) /\ n >= 2 /\ ~r.ovf)
       => /\ r.out = "node"
          /\ IsNodeView(r.view[c], st.faultId, st.history[n - 1])
          /\ SessionHistory(r, c) = SubSeq(st.history, 1, n - 1)

\* a goBack from [n1, n2] renders n1 and leaves [n1]
C28_Witness ==
  \E c \in Chats : \E m \in Sent(c) :
    /\ ActiveState(c, m).history = <<"n1", "n2">>
    /\ Press(Cur, c, m, DtBack).out = "node"
    /\ Press(Cur, c, m, DtBack).view[c].node = "n1"
    /\ SessionHistory(Press(Cur, c, m, DtBack), c) = <<"n1">>

\* C29: popDtHistory never leaves the history empty: on a history of n >= 2
\* entries it removes the top entry alone, leaves the first n-1 entries as
\* they were and returns the new top; on a history of one or no entry, or
\* without a session state, it returns none and changes nothing.
C29_Pop ==
  \A c \in Chats :
    LET cur == dtState[c]
        n == Len(cur.history)
        p == popDtHistory(Cur, c)
    IN IF cur.ok /\ n >= 2
       THEN /\ p.prev = cur.history[n - 1]
            /\ p.s.dtState[c] = [cur EXCEPT !.history = SubSeq(cur.history, 1, n - 1)]
            /\ p.s.dtMsgState = dtMsgState
            /\ p.s.reportState = reportState
       ELSE p.prev = "" /\ p.s = Cur

\* a pop of [n1, n2] that returns n1 and leaves [n1], and a pop of that
\* result which returns none and changes nothing
C29_Witness ==
  \E c \in Chats :
    LET p == popDtHistory(Cur, c)
        q == popDtHistory(p.s, c)
    IN /\ dtState[c].history = <<"n1", "n2">>
       /\ p.prev = "n1" /\ p.s.dtState[c].history = <<"n1">>
       /\ q.prev = "" /\ q.s = p.s

\* node ids rendered: ids of the trees, a dangling id, the empty id and a
\* name that every object inherits
NodeIdInputs == {"n1", "n2", "a", "r1", "zz", "", "constructor"}

\* C30: renderNode for a node id that is neither a reserved token nor a key
\* of the fault's tree nodes renders the 'node not found' error view with
\* exactly one button (back to the pack menu) and leaves the session state
\* and every message-bound state unchanged.
C30_NodeNotFound ==
  \A c \in Chats : \A m \in Sent(c) : \A p \in PackNames : \A f \in PackFaults(p) :
    \A n \in NodeIdInputs \ (RouteTokens \cup MenuTokens \cup DOMAIN f.tree.nodes) :
      \A e \in BOOLEAN :
        LET r == renderNode(Cur, c, m, p, f, n, e)
        IN ~r.ovf =>
             /\ r.out = "err_node"
             /\ r.view[c].kind = "err_node" /\ r.view[c].pack = p /\ r.view[c].n = 1
             /\ r.dtState = dtState
             /\ r.dtMsgState = dtMsgState

\* ---------------------------------------------------------------------
\* Route failures, termination and the start of a tree
\* ---------------------------------------------------------------------

\* the route of token tok cannot be completed: the designated general_dc
\* fault is missing, has no start node, or its start node is not a key of
\* its tree nodes
RouteMissing(tok) == ~getFaultById(Cur, "general_dc", tok).ok
RouteNoStart(tok) ==
  /\ getFaultById(Cur, "general_dc", tok).ok
  /\ ~HasStart(getFaultById(Cur, "general_dc", tok))
RouteDangling(tok) ==
  /\ getFaultById(Cur, "general_dc", tok).ok
  /\ HasStart(getFaultById(Cur, "general_dc", tok))
  /\ ~IsTreeNode(getFaultById(Cur, "general_dc", tok),
                 getFaultById(Cur, "general_dc", tok).tree.start)
RouteFails(tok) == RouteMissing(tok) \/ RouteNoStart(tok) \/ RouteDangling(tok)

\* C31: an advance whose target is a route token whose route cannot be
\* completed shows an error view and leaves the session-level and the
\* message-bound state as they were before the route was attempted.
C31_RouteFailureKeepsState ==
  \A c \in Chats : \A m \in Sent(c) : \A i \in OptIndices : \A e \in BOOLEAN :
    LET a == getActiveDtState(Cur, c, m)
        r == onCallback(Cur, c, m, DtOpt(i), e)
    IN (Target(c, m, i) \in RouteTokens /\ RouteFails(Target(c, m, i)) /\ ~r.ovf)
       => /\ r.out \in ErrorKinds
          /\ r.dtState[c] = a.s.dtState[c]
          /\ r.dtMsgState = a.s.dtMsgState

\* C32: renderNode terminates with a view for every fault-pack content:
\* no advance ends without a view because route resolution recursed
\* without bound.
C32_RouteTerminates ==
  \A c \in Chats : \A m \in Sent(c) : \A i \in OptIndices : \A e \in BOOLEAN :
    LET r == onCallback(Cur, c, m, DtOpt(i), e)
    IN (Target(c, m, i) # "" /\ ~r.ovf) => r.out # "diverge" /\ r.out # "silent"

\* C33: dt:start on an active fault whose tree has a start node that is a
\* node of the tree leaves the session history exactly [start node],
\* whatever it was before, and the state bound to the originating message
\* has the same history.
C33_StartResetsHistory ==
  \A c \in Chats : \A m \in Sent(c) : \A e \in BOOLEAN :
    LET fault == ActiveFault(c, m)
        r == onCallback(Cur, c, m, DtStart, e)
    IN (IsActive(ActiveState(c, m)) /\ IsTreeNode(fault, fault.tree.start) /\ ~r.ovf)
       => /\ SessionHistory(r, c) = <<fault.tree.start>>
          /\ getDtFromMessage(r, c, m).ok
          /\ getDtFromMessage(r, c, m).history = <<fault.tree.start>>

\* dt:start pressed while the history is [n1, n2] leaves [n1] in both stores
C33_Witness ==
  \E c \in Chats : \E m \in Sent(c) :
    /\ dtState[c].history = <<"n1", "n2">>
    /\ IsTreeNode(ActiveFault(c, m), "n1") /\ ActiveFault(c, m).tree.start = "n1"
    /\ SessionHistory(Press(Cur, c, m, DtStart), c) = <<"n1">>
    /\ getDtFromMessage(Press(Cur, c, m, DtStart), c, m).history = <<"n1">>

\* ---------------------------------------------------------------------
\* The keyboard of a node view
\* ---------------------------------------------------------------------
cbReportFromFault(pack, faultId) == <<"RF|", pack, faultId>>

\* a keyboard whose option buttons carry the next target itself
NodeKeyboard_RawNext(pack, fault, node) ==
  [i \in 1..Len(node.options) |-> <<"dt", "o", node.options[i]>>]
    \o << cbReportFromFault(pack, fault.id), <<"dt", "bk">>, <<"dt", "mn">> >>

\* the callback data of the rows renderYamlDecisionNode builds for a node,
\* top to bottom
NodeKeyboard(pack, fault, node) ==
  [i \in 1..Len(node.options) |-> <<"dt", "o", DigitStr[(i - 1) + 1]>>]
    \o << cbReportFromFault(pack, fault.id), <<"dt", "bk">>, <<"dt", "mn">> >>

\* the node the most recent view of chat c shows, and its keyboard
ViewNode(c) == LookupNode(ViewFault(Cur, c).tree, view[c].node).node
ViewKeyboard(c) == NodeKeyboard(view[c].pack, ViewFault(Cur, c), ViewNode(c))
\* the viewed node is the top of the active history of the viewed message
ViewIsTop(c) ==
  /\ view[c].kind = "node" /\ view[c].msg \in Sent(c)
  /\ ActiveState(c, view[c].msg).pack = view[c].pack
  /\ ActiveState(c, view[c].msg).faultId = view[c].fault
  /\ Len(ActiveState(c, view[c].msg).history) > 0
  /\ Last(ActiveState(c, view[c].msg).history) = view[c].node

\* C34: the view of a tree node has one button per option in declared
\* order, the i-th carrying dt:o:<i> and never the raw next target, followed
\* by exactly the create-report, back (dt:bk) and pack menu (dt:mn) controls;
\* pressing the i-th option button while the node is the top of the active
\* history calls renderNode with the next target of the i-th option.
C34_PositionalButtons ==
  \A c \in Chats :
    view[c].kind = "node" =>
      LET kb == ViewKeyboard(c)
          opts == ViewNode(c).options
          m == view[c].msg
      IN /\ view[c].n = Len(opts) /\ Len(kb) = Len(opts) + 3
         /\ \A i \in 1..Len(opts) :
              /\ kb[i] = DtOpt(i - 1)
              /\ \A j \in 1..Len(kb[i]) : kb[i][j] # opts[i]
         /\ SubSeq(kb, Len(opts) + 1, Len(kb)) =
              << cbReportFromFault(view[c].pack, view[c].fault), DtBack, DtMenu >>
         /\ ViewIsTop(c) =>
              \A i \in 1..Len(opts) : \A e \in BOOLEAN :
                opts[i] # "" =>
                  onCallback(Cur, c, m, kb[i], e) =
                    renderNode(getActiveDtState(Cur, c, m).s, c, m, view[c].pack,
                               ViewFault(Cur, c), opts[i], e)

\* node a of F2 is shown with its six option buttons and the fifth button,
\* dt:o:4, renders the error view of its dangling target zz
C34_Witness ==
  \E c \in Chats :
    /\ ViewIsTop(c) /\ view[c].node = "a" /\ Len(ViewKeyboard(c)) = 9
    /\ ViewKeyboard(c)[5] = <<"dt", "o", "4">>
    /\ ViewNode(c).options[5] = "zz"
    /\ Press(Cur, c, view[c].msg, ViewKeyboard(c)[5]).view[c].node = "zz"
    /\ Press(Cur, c, view[c].msg, ViewKeyboard(c)[5]).out = "err_node"

\* ---------------------------------------------------------------------
\* The de-duplication window
\* ---------------------------------------------------------------------
\* line 1118: the callback of chat c that arrives in state s is dropped
Suppressed(s, c) == s.rl[c] < Window

\* C35: a callback is suppressed only if it repeats the previously accepted
\* action of its chat and arrives less than 250 ms after it; a suppressed
\* callback changes no store and renders nothing; a callback arriving 250 ms
\* or more after the last accepted callback of its chat is never suppressed.
C35_SuppressOnlyRepeats ==
  \A c \in Chats : \A m \in Sent(c) :
    \A d1 \in ChatInputs(c) : \A d2 \in ChatInputs(c) : \A gap \in Gaps :
      LET r1 == onCallbackQuery(Elapse(Cur, Window), c, m, d1, TRUE)
          s2 == Elapse(r1, gap)
          r2 == onCallbackQuery(s2, c, m, d2, TRUE)
      IN /\ Suppressed(s2, c) => (d2 = d1 /\ gap < Window)
         /\ Suppressed(s2, c) => (Stores(r2) = Stores(s2) /\ r2.view = s2.view /\ r2.out = s2.out)
         /\ gap >= Window => ~Suppressed(s2, c)

\* ---------------------------------------------------------------------
\* Histories and backward navigation
\* ---------------------------------------------------------------------
\* the machine of Spec started with the fourth authoring of general_dc
InitProto ==
  /\ packs = "proto"
  /\ dtState = [c \in Chats |-> NoDt]
  /\ dtMsgState = [c \in Chats |-> [m \in MsgIds |-> NoDt]]
  /\ alias = [c \in Chats |-> [h \in Holders |-> h]]
  /\ reportState = [c \in Chats |-> NoReport]
  /\ nmsg = [c \in Chats |-> 0]
  /\ view = [c \in Chats |-> NoView]
  /\ rl = [c \in Chats |-> Window]
  /\ pending = [c \in Chats |-> << >>]
SpecProto == InitProto /\ [][Next]_vars

\* the fault the session of chat c is bound to
SessionFault(s, c) == getFaultById(s, s.dtState[c].pack, s.dtState[c].faultId)

\* C36: in every reachable state every node id in a chat's session history
\* is a key of the tree nodes of the fault identified by the session's pack
\* and faultId.
C36_HistoryInTree ==
  \A c \in Chats :
    \A k \in 1..Len(dtState[c].history) :
      IsTreeNode(SessionFault(Cur, c), dtState[c].history[k])

\* every run of at most k dt:bk presses on messages of chat c, started in
\* state s, renders the Fault Card
RECURSIVE CardWithin(_, _, _)
CardWithin(s, c, k) ==
  /\ k > 0
  /\ \A m \in 1..s.nmsg[c] :
       \/ Press(s, c, m, DtBack).out = "card"
       \/ CardWithin(Press(s, c, m, DtBack), c, k - 1)

\* C37: from a state in which a chat has an active fault with a history of
\* n entries, dt:bk presses alone, none suppressed, render the Fault Card
\* after at most n of them (after the first one when the history is empty).
C37_BackReachesCard ==
  \A c \in Chats : \A m \in Sent(c) :
    LET st == ActiveState(c, m)
        r == Press(Cur, c, m, DtBack)
    IN IsActive(st) =>
         \/ r.out = "card"
         \/ Len(st.history) > 1 /\ CardWithin(r, c, Len(st.history) - 1)

\* from the history [n1, n2] the first dt:bk renders n1 and the second the
\* Fault Card
C37_Witness ==
  \E c \in Chats : \E m \in Sent(c) :
    /\ IsActive(ActiveState(c, m)) /\ ActiveState(c, m).history = <<"n1", "n2">>
    /\ Press(Cur, c, m, DtBack).out = "node"
    /\ Press(Cur, c, m, DtBack).view[c].node = "n1"
    /\ Press(Press(Cur, c, m, DtBack), c, m, DtBack).out = "card"

\* ---------------------------------------------------------------------
\* The report wizard
\* ---------------------------------------------------------------------
\* a text the wizard of chat c consumes: not empty, no command, a report in
\* progress
Consumed(c, t) == t # "" /\ ~IsCommandText(t) /\ reportState[c].ok

\* C38: dt:start, dt:o:<i>, dt:bk and dt:mn leave the chat's report state
\* unchanged, and a text consumed by the report wizard leaves the
\* session-level and the message-bound decision-tree state unchanged.
C38_ReportAndTreeIndependent ==
  \A c \in Chats :
    /\ \A m \in Sent(c) : \A d \in DtInputs : \A e \in BOOLEAN :
         onCallback(Cur, c, m, d, e).reportState = reportState
    /\ \A t \in Texts :
         Consumed(c, t) =>
           /\ onMessage(Cur, c, t).dtState = dtState
           /\ onMessage(Cur, c, t).dtMsgState = dtMsgState
           /\ onMessage(Cur, c, t).alias = alias

\* with a report at its second step and the tree of F1 at n1, dt:mn shows
\* the pack menu and the report stays; a reply advances the report and the
\* tree state stays
C38_Witness ==
  \E c \in Chats : \E m \in Sent(c) :
    /\ reportState[c].ok /\ reportState[c].step = "chargerIdPublic"
    /\ dtState[c].ok /\ dtState[c].history = <<"n1">>
    /\ IsMenuView(Press(Cur, c, m, DtMenu).view[c], "autel")
    /\ Press(Cur, c, m, DtMenu).reportState[c] = reportState[c]
    /\ onMessage(Cur, c, "x").reportState[c].step = "chargerSerialNumber"
    /\ onMessage(Cur, c, "x").dtState[c] = dtState[c]

\* the order of the wizard's steps, and the position of a step in it
order ==
  <<"site", "chargerIdPublic", "chargerSerialNumber", "assetId", "technician",
    "clientRef", "actions", "faultSummary", "resolution", "notes", "confirm">>
IndexOf(step) ==
  IF \E i \in 1..Len(order) : order[i] = step
  THEN (CHOOSE i \in 1..Len(order) : order[i] = step) - 1
  ELSE 0 - 1
nextReportStep(cur) ==
  IF IndexOf(cur) >= 0 /\ IndexOf(cur) < Len(order) - 1
  THEN order[(IndexOf(cur) + 1) + 1]
  ELSE "confirm"

\* C39: the wizard starts at site; a consumed text other than cancel moves
\* the step exactly one position forward in the order (at actions only
\* 'done' does, any other text stays at actions), the step never moves
\* backward, 'send' at confirm removes the report state and any other text
\* stays at confirm, and 'cancel' at any step removes the report state.
C39_WizardLinear ==
  \A c \in Chats :
    /\ startReport(Cur, c).reportState[c].step = order[1]
    /\ \A t \in Texts :
         Consumed(c, t) =>
           LET st == reportState[c]
               rs == onMessage(Cur, c, t).reportState[c]
           IN /\ IndexOf(st.step) >= 0
              /\ IF LowerText(t) = "cancel" THEN ~rs.ok
                 ELSE IF st.step = "confirm"
                 THEN IF LowerText(t) = "send" THEN ~rs.ok ELSE rs = st
                 ELSE IF st.step = "actions" /\ LowerText(t) # "done" THEN rs = st
                 ELSE /\ rs.ok /\ rs.step = nextReportStep(st.step)
                      /\ IndexOf(rs.step) = IndexOf(st.step) + 1
              /\ rs.ok => IndexOf(rs.step) >= IndexOf(st.step)

\* at the actions step a plain text stays and 'done' moves on to the fault
\* summary; at the confirm step 'send' removes the report
C39_Witness ==
  \E c \in Chats :
    /\ reportState[c].ok /\ reportState[c].step = "actions"
    /\ onMessage(Cur, c, "x").reportState[c].step = "actions"
    /\ onMessage(Cur, c, "done").reportState[c].step = "faultSummary"
    /\ onMessage(onMessage(Cur, c, "done"), c, "skip").reportState[c].step = "resolution"
    /\ ~onMessage(onMessage(onMessage(onMessage(onMessage(Cur, c, "done"), c, "skip"),
                                      c, "x"), c, "skip"), c, "send").reportState[c].ok

====
